---------------------------- MODULE Spec2Model ----------------------------
(***************************************************************************)
(* A model of dshubenok/effective-palm-tree:                               *)
(*   task2_scraper  - RateLimiter, GithubReposScrapper (asyncio tasks)     *)
(*   task3_clickhouse - ClickHouseSaver (batched multi-table writer)       *)
(*                                                                         *)
(* Time is the event loop's monotonic clock, counted in ticks.  A task is  *)
(* a coroutine; one action is the code a task runs between two suspension  *)
(* points of the event loop.                                               *)
(***************************************************************************)
EXTENDS Integers, Sequences, FiniteSets, Bags, TLC

\* ------------------------------------------------------------------ bounds
MaxRepos == 2       \* tasks are 0..MaxRepos: the search request and one per repository
MaxTime == 3        \* the clock stops advancing here
MaxRate == 2        \* RateLimiter rate ranges over 1..MaxRate
MaxPeriod == 2      \* RateLimiter period (ticks) ranges over 1..MaxPeriod
MaxCalls == 2       \* a caller of the limiter calls acquire() up to MaxCalls times

Tasks == 0..MaxRepos

VARIABLES
    now,          \* loop.time()
    rate,         \* RateLimiter._rate
    period,       \* RateLimiter._period
    timestamps,   \* RateLimiter._timestamps (deque, oldest first)
    lock,         \* RateLimiter._lock: the set of tasks holding it (none, or one)
    pc,           \* where each task stands
    wake,         \* while a task sleeps: the time its asyncio.sleep timer is due
    grantAt,      \* per task: acquire's local `now` of each grant it was given
    \* GithubReposScrapper.get_repositories: task 0 runs it, task i builds snapshot i
    maxConcurrent,  \* max_concurrent_requests
    semaphore,      \* the free permits of GithubReposScrapper._semaphore
    repositories,   \* get_repositories' local `repositories` (the search items)
    result,         \* what each snapshot task returned or raised
    outer,          \* the future of asyncio.gather
    returned,       \* what get_repositories returned or raised
    issued,         \* per task: the grants it obtained and the requests it issued, in
                    \* order, each marked "late" when get_repositories had already raised
    \* one _build_repository_snapshot call against a remote API (SpecFetch)
    fpc,            \* "start", "inflight", "done"
    fetchItem,      \* the search item `repo` the snapshot is built for
    fetchPosition,  \* the `position` argument
    fetchPages,     \* the remote commit history: a chain of pages linked by "next"
    fetchRequested, \* the page numbers requested so far, in request order
    fetchResp,      \* the response aiohttp produced for the request
    fetchReply,     \* what _make_request returned or raised for it
    fetchCommits,   \* the commits handed to _aggregate_commits
    fetchOutcome,   \* what _build_repository_snapshot returned or raised
    \* ClickHouseSaver.save_top_repositories
    spc,            \* "idle", "call", "rows" (pulling a batch), "insert" (awaiting), "done"
    table,          \* the `table` of the _insert_with_batches call, "" before the first
    batch_size,     \* ClickHouseSettings.batch_size
    client,         \* ClickHouseSaver._client: "none" or "open"
    saveInput,      \* the `repositories` argument
    snapshots,      \* the local `snapshots`
    cursor,         \* how many rows `iterator` has yielded for the current table
    batch,          \* the `batch` of the insert call in flight, <<>> when none is
    calls,          \* the insert calls the store client received, in call order
    saveOutcome,    \* how save_top_repositories ended
    \* one ClickHouseSaver shared by concurrent callers (connect, save, close)
    cpc,            \* where each caller of the saver stands
    session,        \* ClickHouseSaver._session: "none" or "open"
    connLog         \* constructions, insert calls and close calls, in order

limiterVars == <<now, rate, period, timestamps, lock, wake, grantAt>>
fetchVars == <<fpc, fetchItem, fetchPosition, fetchPages, fetchRequested, fetchResp,
               fetchReply, fetchCommits, fetchOutcome>>
scraperVars == <<maxConcurrent, semaphore, repositories, result, outer, returned, issued>>
saverVars == <<spc, table, batch_size, client, saveInput, snapshots, cursor, batch, calls,
               saveOutcome>>
connVars == <<cpc, session, connLog>>
vars == <<limiterVars, pc, scraperVars, fetchVars, saverVars, connVars>>


\* ------------------------------------------------------------ RateLimiter

\* an eviction that keeps a timestamp that is exactly one period old
RECURSIVE EvictStrict(_, _)
EvictStrict(ts, t) ==
    IF ts # <<>> /\ t - Head(ts) > period THEN EvictStrict(Tail(ts), t) ELSE ts

\* rate_limiter.py:23-24  while timestamps and now - timestamps[0] >= period: popleft()
RECURSIVE Evict(_, _)
Evict(ts, t) ==
    IF ts # <<>> /\ t - Head(ts) >= period THEN Evict(Tail(ts), t) ELSE ts

\* a limiter that grants while the window already holds `rate` grants
HasCapacityOffByOne(ts) == Len(ts) <= rate

\* rate_limiter.py:26  len(self._timestamps) < self._rate
HasCapacity(ts) == Len(ts) < rate

Max(a, b) == IF a >= b THEN a ELSE b

\* rate_limiter.py:30,32  max(period - (now - timestamps[0]), 0.0)
SleepFor(ts, t) == Max(period - (t - Head(ts)), 0)

\* a lock that stays held when the `async with` block is left
UnlockNever(held, t) == held

\* rate_limiter.py:21  `async with self._lock` (exit): the holder lets go of the lock
Unlock(held, t) == held \ {t}

\* the record of a grant or a request of task t, marked late when get_repositories
\* (task 0) has already raised
Issue(log, t, what) ==
    [log EXCEPT ![t] = Append(@, [what |-> what, late |-> pc[0] = "raised"])]

\* rate_limiter.py:21-28  one pass of the loop that grants: the lock is free (no task
\* suspends while holding it) and is taken, then evict, check, record, return; the
\* lock is released on the way out.  Nothing in lines 21-30 suspends, so the event
\* loop runs no other task in between.
Grant(t) ==
    /\ pc[t] = "acquire"
    /\ lock = {}
    /\ HasCapacity(Evict(timestamps, now))
    /\ timestamps' = Append(Evict(timestamps, now), now)
    /\ grantAt' = [grantAt EXCEPT ![t] = Append(@, now)]
    /\ issued' = Issue(issued, t, "grant")
    /\ lock' = Unlock(lock \cup {t}, t)
    /\ pc' = [pc EXCEPT ![t] = "granted"]
    /\ UNCHANGED <<now, rate, period, wake, maxConcurrent, semaphore, repositories, result,
                   outer, returned, fetchVars, connVars, saverVars>>

\* rate_limiter.py:21-32  one pass that finds no room: evict, compute sleep_for,
\* release the lock, then sleep
Backoff(t) ==
    /\ pc[t] = "acquire"
    /\ lock = {}
    /\ ~HasCapacity(Evict(timestamps, now))
    /\ timestamps' = Evict(timestamps, now)
    /\ wake' = [wake EXCEPT ![t] = now + SleepFor(Evict(timestamps, now), now)]
    /\ lock' = Unlock(lock \cup {t}, t)
    /\ pc' = [pc EXCEPT ![t] = "sleeping"]
    /\ UNCHANGED <<now, rate, period, grantAt, scraperVars, fetchVars, connVars, saverVars>>

\* rate_limiter.py:32,20  the sleep timer fired (never early, maybe late): loop again
Wake(t) ==
    /\ pc[t] = "sleeping"
    /\ now >= wake[t]
    /\ pc' = [pc EXCEPT ![t] = "acquire"]
    /\ wake' = [wake EXCEPT ![t] = 0]
    /\ UNCHANGED <<now, rate, period, timestamps, lock, grantAt, scraperVars, fetchVars, connVars, saverVars>>

\* a caller that was granted calls acquire() once more
CallAgain(t) ==
    /\ pc[t] = "granted"
    /\ Len(grantAt[t]) < MaxCalls
    /\ pc' = [pc EXCEPT ![t] = "acquire"]
    /\ UNCHANGED <<limiterVars, scraperVars, fetchVars, connVars, saverVars>>

\* the monotonic clock advances
Tick ==
    /\ now < MaxTime
    /\ now' = now + 1
    /\ UNCHANGED <<rate, period, timestamps, lock, pc, wake, grantAt, scraperVars, fetchVars, connVars, saverVars>>

\* the clock is followed up to here once tasks only wait: late enough for every
\* task to have been granted once
Horizon == MaxTime + (MaxRepos + 1) * MaxPeriod

\* rate_limiter.py:32  every task is suspended in asyncio.sleep and no timer is due:
\* the event loop waits for the next timer, and time passes
LoopIdle ==
    /\ \A t \in Tasks : pc[t] # "acquire"
    /\ \E t \in Tasks : pc[t] = "sleeping"
    /\ \A t \in Tasks : pc[t] = "sleeping" => wake[t] > now
    /\ now < Horizon
    /\ now' = now + 1
    /\ UNCHANGED <<rate, period, timestamps, lock, pc, wake, grantAt, scraperVars, fetchVars,
                   connVars, saverVars>>


\* ------------------------------------------------- the remote API (aiohttp)

Absent == "<absent>"      \* a JSON member that is missing
Null == "<null>"          \* a JSON member that is null

\* a commit record as the API serves it.  author, commit and commit_author say what
\* the members "author", "commit" and "commit"."author" are: "missing", "null" or an
\* "object"; login, name and email are the members author.login, commit.author.name
\* and commit.author.email of those objects
Commit(author, login, commit, commit_author, name, email) ==
    [author |-> author, login |-> login, commit |-> commit,
     commit_author |-> commit_author, name |-> name, email |-> email]

C_alice == Commit("object", "alice", "object", "object", "Alice A", "a@x.com")
C_bob == Commit("null", Absent, "object", "object", "Bob", "b@x.com")
C_mail == Commit("null", Absent, "object", "object", Absent, "c@x.com")
C_anon == Commit("missing", Absent, "object", "object", "", Null)
\* a linked user whose login is another commit author's display name
C_bobby == Commit("object", "Bob", "object", "object", "Robert", "r@x.com")
\* a commit whose git author is null
C_ghost == Commit("null", Absent, "object", "null", Absent, Absent)

\* the pages a commit history is made of
PagePool ==
    { <<C_alice, C_bob>>, <<C_bob, C_alice>>, <<C_mail>>, <<C_anon, C_bob>> }

MaxPages == 2     \* a commit history is a chain of 0..MaxPages pages

RECURSIVE SeqsUpTo(_, _)
SeqsUpTo(S, n) ==
    IF n = 0 THEN {<<>>}
    ELSE LET shorter == SeqsUpTo(S, n - 1)
         IN  shorter \cup {Append(q, x) : q \in {r \in shorter : Len(r) = n - 1}, x \in S}

PageChains == SeqsUpTo(PagePool, MaxPages)

\* the items the search endpoint ranks
RepoCatalogue ==
    << [name |-> "linux", owner |-> "torvalds", stargazers_count |-> 4,
        watchers_count |-> 4, watchers |-> 4, forks_count |-> 2, language |-> "C"],
       [name |-> "react", owner |-> "facebook", stargazers_count |-> 3,
        watchers_count |-> 3, watchers |-> 3, forks_count |-> 1,
        language |-> "JavaScript"],
       [name |-> "vue", owner |-> "vuejs", stargazers_count |-> 2,
        watchers_count |-> 0, watchers |-> 2, forks_count |-> 1, language |-> Absent],
       [name |-> "go", owner |-> "golang", stargazers_count |-> 1,
        watchers_count |-> 1, watchers |-> 1, forks_count |-> 0, language |-> "Go"] >>

\* a parsed JSON body: a list (items), or an object whose "items" member is a list or not
JsonList(items) == [type |-> "list", items |-> items, itemsIsList |-> TRUE]
JsonDict(items, isList) == [type |-> "dict", items |-> items, itemsIsList |-> isList]
NoJson == [type |-> "none", items |-> <<>>, itemsIsList |-> FALSE]

\* what session.request / raise_for_status / response.json() can meet
\*   kind "transport": the request or the body read fails with exception class exc
\*   kind "http": a response with status and reason; form says how the body decodes
NoResp == [kind |-> "none", exc |-> "", status |-> 0, reason |-> "", text |-> "",
           form |-> "", json |-> NoJson, next |-> FALSE]
HttpResp(status, reason, text, form, json, next) ==
    [kind |-> "http", exc |-> "", status |-> status, reason |-> reason, text |-> text,
     form |-> form, json |-> json, next |-> next]
TransportFailure(exc) ==
    [kind |-> "transport", exc |-> exc, status |-> 0, reason |-> "", text |-> "",
     form |-> "", json |-> NoJson, next |-> FALSE]

\* exception classes of the transport; aiohttp derives the first four from ClientError,
\* a total-timeout expiry is asyncio.TimeoutError, which is not a ClientError
TransportExceptions ==
    {"ClientConnectorError", "ClientSSLError", "ServerDisconnectedError",
     "ServerTimeoutError", "TimeoutError"}

\* github_scrapper.py:75  except ClientError
IsClientError(exc) ==
    exc \in {"ClientConnectorError", "ClientSSLError", "ServerDisconnectedError",
             "ServerTimeoutError", "ClientPayloadError"}

\* status lines the API answers with
StatusLines ==
    { <<200, "OK">>, <<202, "Accepted">>, <<403, "Forbidden">>, <<404, "Not Found">>,
      <<422, "Unprocessable Entity">>, <<500, "Internal Server Error">>, <<502, "">> }

\* how a body decodes: "json" parses, "mimetype" is not application/json
\* (ContentTypeError, a ClientResponseError), "malformed" is not JSON at all
\* (json.JSONDecodeError), "truncated" breaks off while read (ClientPayloadError)
BodyForms == {"json", "mimetype", "malformed", "truncated"}

\* ------------------------------------------------------------ errors

NoError == [type |-> "none", text |-> "", status |-> 0, detail |-> "", endpoint |-> <<>>,
            cause |-> ""]
\* github_scrapper.py:74  RuntimeError(f"{method} {url} failed with status {status}: {text}")
StatusError(endpoint, status, detail, cause) ==
    [type |-> "RuntimeError", text |-> "failed with status", status |-> status,
     detail |-> detail, endpoint |-> endpoint, cause |-> cause]
\* github_scrapper.py:76  RuntimeError(f"Network error during {method} {url}")
NetworkError(endpoint, cause) ==
    [type |-> "RuntimeError", text |-> "Network error during", status |-> 0,
     detail |-> "", endpoint |-> endpoint, cause |-> cause]
\* github_scrapper.py:85,103  RuntimeError("GitHub API returned unexpected payload for ...")
PayloadError(what) ==
    [type |-> "RuntimeError", text |-> "GitHub API returned unexpected payload for",
     status |-> 0, detail |-> what, endpoint |-> <<>>, cause |-> ""]
\* an exception no handler of the client catches
RawError(type) ==
    [type |-> type, text |-> "", status |-> 0, detail |-> "", endpoint |-> <<>>,
     cause |-> ""]

NoValue == [kind |-> "none", json |-> NoJson, error |-> NoError]
Return(json) == [kind |-> "return", json |-> json, error |-> NoError]
Raise(error) == [kind |-> "raise", json |-> NoJson, error |-> error]

\* ---------------------------------------------------- GithubReposScrapper

\* github_scrapper.py:73  text = exc.message or "GitHub API request failed"
MessageOrDefault(message) == IF message # "" THEN message ELSE "GitHub API request failed"

\* github_scrapper.py:66-76  what _make_request returns or raises for a response
MakeRequest(endpoint, resp) ==
    IF resp.kind = "transport"
    THEN IF IsClientError(resp.exc)
         THEN Raise(NetworkError(endpoint, resp.exc))
         ELSE Raise(RawError(resp.exc))
    ELSE IF resp.status >= 400                                  \* raise_for_status()
    THEN Raise(StatusError(endpoint, resp.status, MessageOrDefault(resp.reason),
                           "ClientResponseError"))
    ELSE CASE resp.form = "json" -> Return(resp.json)           \* await response.json()
           [] resp.form = "mimetype" ->
                Raise(StatusError(endpoint, resp.status,
                                  "Attempt to decode JSON with unexpected mimetype",
                                  "ContentTypeError"))
           [] resp.form = "truncated" -> Raise(NetworkError(endpoint, "ClientPayloadError"))
           [] OTHER -> Raise(RawError("JSONDecodeError"))

\* github_scrapper.py:80  endpoint="search/repositories"
SearchEndpoint == <<"search", "repositories">>

\* github_scrapper.py:78-86  _get_top_repositories on the outcome of its request
GetTopRepositories(out) ==
    IF out.kind = "raise" THEN out
    ELSE IF out.json.type = "list" THEN Raise(RawError("AttributeError"))  \* list.get
    ELSE IF ~out.json.itemsIsList THEN Raise(PayloadError("repositories search"))
    ELSE out

\* github_scrapper.py:99  endpoint=f"repos/{owner}/{repo}/commits"
CommitsEndpoint(owner, repo) == <<"repos", owner, repo, "commits">>

\* github_scrapper.py:88-104  _get_repository_commits on the outcome of its request
GetRepositoryCommits(out) ==
    IF out.kind = "raise" THEN out
    ELSE IF out.json.type # "list" THEN Raise(PayloadError("repository commits"))
    ELSE out

\* Python truthiness of what dict.get gave: None (missing or null) and "" are falsy
Truthy(s) == s \notin {Absent, Null, ""}

\* github_scrapper.py:141-142  (commit.get("author") or {}).get("login")
Login(commit) == IF commit.author = "object" THEN commit.login ELSE Absent

\* github_scrapper.py:146  commit.get("commit", {}).get("author", {}): the default
\* stands in for a missing member only; a null member is None, and None has no .get
CommitAuthorIsNone(commit) ==
    \/ commit.commit = "null"
    \/ commit.commit = "object" /\ commit.commit_author = "null"

\* github_scrapper.py:147,150  commit_author.get("name"), commit_author.get("email")
Name(commit) ==
    IF commit.commit = "object" /\ commit.commit_author = "object"
    THEN commit.name ELSE Absent
Email(commit) ==
    IF commit.commit = "object" /\ commit.commit_author = "object"
    THEN commit.email ELSE Absent

\* github_scrapper.py:143-147  _extract_author raises AttributeError: no login to
\* return, and the commit author it goes on to read is None
ExtractRaises(commit) == ~Truthy(Login(commit)) /\ CommitAuthorIsNone(commit)

\* github_scrapper.py:139-150  _extract_author, when it returns
ExtractAuthor(commit) ==
    IF Truthy(Login(commit)) THEN Login(commit)
    ELSE IF Truthy(Name(commit)) THEN Name(commit)
    ELSE Email(commit)

\* github_scrapper.py:130-131  the loop of _aggregate_commits meets a commit on
\* which _extract_author raises
AggregateRaises(commits) == \E i \in 1..Len(commits) : ExtractRaises(commits[i])

\* Counter: authors[author] += 1, the entries kept in first-seen order
Increment(counts, author) ==
    IF \E i \in 1..Len(counts) : counts[i].author = author
    THEN [i \in 1..Len(counts) |->
            IF counts[i].author = author
            THEN [counts[i] EXCEPT !.commits_num = @ + 1] ELSE counts[i]]
    ELSE Append(counts, [author |-> author, commits_num |-> 1])

\* github_scrapper.py:129-133  the counting loop
RECURSIVE CountAuthors(_, _)
CountAuthors(commits, counts) ==
    IF commits = <<>> THEN counts
    ELSE CountAuthors(Tail(commits),
                      IF Truthy(ExtractAuthor(Head(commits)))
                      THEN Increment(counts, ExtractAuthor(Head(commits)))
                      ELSE counts)

\* a sort that puts a later-seen author before an earlier one of the same count
RECURSIVE InsertByCountUnstable(_, _)
InsertByCountUnstable(sorted, e) ==
    IF sorted = <<>> THEN <<e>>
    ELSE IF Head(sorted).commits_num > e.commits_num
         THEN <<Head(sorted)>> \o InsertByCountUnstable(Tail(sorted), e)
         ELSE <<e>> \o sorted

\* sorted(..., key=count, reverse=True): stable, so ties stay in first-seen order
RECURSIVE InsertByCount(_, _)
InsertByCount(sorted, e) ==
    IF sorted = <<>> THEN <<e>>
    ELSE IF Head(sorted).commits_num >= e.commits_num
         THEN <<Head(sorted)>> \o InsertByCount(Tail(sorted), e)
         ELSE <<e>> \o sorted

RECURSIVE MostCommon(_, _)
MostCommon(counts, sorted) ==
    IF counts = <<>> THEN sorted
    ELSE MostCommon(Tail(counts), InsertByCount(sorted, Head(counts)))

\* github_scrapper.py:127-137  _aggregate_commits, when no commit makes it raise
AggregateCommits(commits) == MostCommon(CountAuthors(commits, <<>>), <<>>)

\* github_scrapper.py:116-125  the Repository record (models.py:14-22)
Repository(position, repo, authors) ==
    [name |-> repo.name,
     owner |-> repo.owner,
     position |-> position,
     stars |-> repo.stargazers_count,
     watchers |-> IF repo.watchers_count # 0 THEN repo.watchers_count ELSE repo.watchers,
     forks |-> repo.forks_count,
     language |-> IF Truthy(repo.language) THEN repo.language ELSE "",
     authors_commits_num_today |-> authors]

NoRepository == Repository(0, [name |-> "", owner |-> "", stargazers_count |-> 0,
                               watchers_count |-> 0, watchers |-> 0,
                               forks_count |-> 0, language |-> ""], <<>>)

NoResult == [kind |-> "none", value |-> NoRepository, error |-> NoError]
Ok(value) == [kind |-> "return", value |-> value, error |-> NoError]
Failed(error) == [kind |-> "raise", value |-> NoRepository, error |-> error]

\* github_scrapper.py:115-125  the commits are aggregated and the Repository is built
SnapshotOf(position, repo, commits) ==
    IF AggregateRaises(commits)
    THEN Failed(RawError("AttributeError"))
    ELSE Ok(Repository(position, repo, AggregateCommits(commits)))

\* github_scrapper.py:106-125  _build_repository_snapshot on the outcome of its request
BuildRepositorySnapshot(position, repo, out) ==
    IF GetRepositoryCommits(out).kind = "raise"
    THEN Failed(GetRepositoryCommits(out).error)
    ELSE SnapshotOf(position, repo, out.json.items)

\* ------------------------------------------------------- get_repositories

MaxConcurrent == 2    \* max_concurrent_requests ranges over 1..MaxConcurrent

NoList == [kind |-> "none", list |-> <<>>, error |-> NoError]
ReturnList(list) == [kind |-> "return", list |-> list, error |-> NoError]
RaiseFrom(error) == [kind |-> "raise", list |-> <<>>, error |-> error]

\* the page the API serves for a request without a cursor: the first page of the
\* history, with a "next" link when the chain goes on
FirstPage(pages) == IF pages = <<>> THEN <<>> ELSE pages[1]

\* the rankings the search endpoint may answer with: its first n items, best first
\* or worst first
Rankings ==
    UNION { { [i \in 1..n |-> RepoCatalogue[i]], [i \in 1..n |-> RepoCatalogue[n + 1 - i]] } :
            n \in 0..MaxRepos }

\* the commit history the API holds for each repository
RemoteHistory(name) ==
    CASE name = "linux" -> << <<C_alice, C_bob>>, <<C_mail>> >>
      [] name = "react" -> << <<C_bob, C_alice>> >>
      [] name = "vue" -> << <<C_anon, C_bob>> >>
      [] OTHER -> <<>>

\* the responses the search request meets while the tasks run concurrently
SearchResponses ==
    {HttpResp(200, "OK", "body", "json", JsonDict(r, TRUE), FALSE) : r \in Rankings}
    \cup {HttpResp(403, "Forbidden", "body", "json", NoJson, FALSE),
          TransportFailure("ClientConnectorError")}

\* the responses a commits request meets while the tasks run concurrently
TaskResponses(repo) ==
    {HttpResp(200, "OK", "body", "json", JsonList(FirstPage(RemoteHistory(repo.name))),
              Len(RemoteHistory(repo.name)) > 1),
     HttpResp(404, "Not Found", "body", "json", NoJson, FALSE),
     TransportFailure("ClientConnectorError")}

\* a semaphore created with one permit too many
SemaphoreOneMore(k) == k + 1

\* github_scrapper.py:34  asyncio.Semaphore(max_concurrent_requests): the permits
Semaphore(k) == k

\* a semaphore whose permit is not given back when the block is left
SemReleaseLeak(permits) == permits

\* github_scrapper.py:67  async with self._semaphore (exit, by return or by
\* exception): the permit goes back
SemRelease(permits) == permits + 1

\* github_scrapper.py:67  async with self._semaphore (entry): take a permit or wait
SemAcquire(t) ==
    /\ pc[t] = "start"
    /\ semaphore > 0
    /\ semaphore' = semaphore - 1
    /\ pc' = [pc EXCEPT ![t] = "acquire"]              \* line 68: rate_limiter.acquire()
    /\ UNCHANGED <<limiterVars, maxConcurrent, repositories, result, outer, returned,
                   issued, fetchVars, connVars, saverVars>>

\* github_scrapper.py:69  session.request(method, url, params=params) is issued
SendRequest(t) ==
    /\ pc[t] = "granted"
    /\ pc' = [pc EXCEPT ![t] = "inflight"]
    /\ issued' = Issue(issued, t, "request")
    /\ UNCHANGED <<limiterVars, maxConcurrent, semaphore, repositories, result, outer,
                   returned, fetchVars, connVars, saverVars>>

\* github_scrapper.py:51-54  the position handed to the i-th snapshot task
Position(i) == i

\* the snapshot tasks that have finished
Finished(res, n) == {i \in 1..n : res[i].kind # "none"}

\* the results in the reverse of the order of `tasks`
GatherResultsReversed(res, n) == [i \in 1..n |-> res[n + 1 - i].value]

\* github_scrapper.py:57  asyncio.gather(*tasks): the results in the order of `tasks`
GatherResults(res, n) == [i \in 1..n |-> res[i].value]

\* asyncio.gather(return_exceptions=True): a failure is a result like any other
OuterAfterKeepGoing(fut, res, n, t) ==
    IF fut.kind # "none" THEN fut
    ELSE IF Finished(res, n) = 1..n THEN ReturnList(GatherResults(res, n))
    ELSE fut

\* github_scrapper.py:57  asyncio.gather(*tasks) when task t finishes: the first
\* exception resolves the future at once, the last result resolves it with the list
OuterAfter(fut, res, n, t) ==
    IF fut.kind # "none" THEN fut
    ELSE IF res[t].kind = "raise" THEN RaiseFrom(res[t].error)
    ELSE IF Finished(res, n) = 1..n THEN ReturnList(GatherResults(res, n))
    ELSE fut

\* github_scrapper.py:48,70-86  the search response arrives in get_repositories:
\* the permit is released, the payload checked, the snapshot tasks are created
\* (lines 51-57), or [] is returned (55-56), or the error leaves get_repositories
SearchResponse ==
    /\ pc[0] = "inflight"
    /\ \E resp \in SearchResponses :
         LET out == GetTopRepositories(MakeRequest(SearchEndpoint, resp))
             n == Len(out.json.items)
         IN  IF out.kind = "raise"
             THEN /\ pc' = [pc EXCEPT ![0] = "raised"]
                  /\ returned' = RaiseFrom(out.error)
                  /\ UNCHANGED repositories
             ELSE /\ repositories' = out.json.items
                  /\ IF n = 0
                     THEN /\ pc' = [pc EXCEPT ![0] = "returned"]
                          /\ returned' = ReturnList(<<>>)
                     ELSE /\ pc' = [t \in Tasks |->
                                      IF t = 0 THEN "gather"
                                      ELSE IF t <= n THEN "start" ELSE pc[t]]
                          /\ UNCHANGED returned
    /\ semaphore' = SemRelease(semaphore)
    /\ UNCHANGED <<limiterVars, maxConcurrent, result, outer, issued, fetchVars, connVars,
                   saverVars>>

\* a client that asks the limiter again and re-issues a request that failed
RetryOnError(out) == IF out.kind = "raise" THEN "acquire" ELSE "done"

\* github_scrapper.py:70-76  where _make_request stands once its request has an
\* outcome: it has returned the body or raised; no loop leads back to the request
AfterResponse(out) == "done"

\* a gather that cancels the children still running when one of them has failed
GatherCancelsChildren(p, fut) ==
    IF fut.kind = "raise"
    THEN [u \in Tasks |-> IF u # 0 /\ p[u] \notin {"none", "done"} THEN "done" ELSE p[u]]
    ELSE p

\* github_scrapper.py:57  asyncio.gather(*tasks) when its future is resolved by a
\* child's exception: the other children are left as they are and go on running
GatherChildren(p, fut) == p

\* github_scrapper.py:70-76,102-125  a commits response arrives in snapshot task t:
\* the permit is released and the task finishes with a Repository or an error
CommitsResponse(t) ==
    /\ t # 0
    /\ pc[t] = "inflight"
    /\ \E resp \in TaskResponses(repositories[t]) :
         LET repo == repositories[t]
             out == MakeRequest(CommitsEndpoint(repo.owner, repo.name), resp)
         IN  /\ result' = [result EXCEPT ![t] =
                                BuildRepositorySnapshot(Position(t), repo, out)]
             /\ outer' = OuterAfter(outer, result', Len(repositories), t)
             /\ pc' = GatherChildren([pc EXCEPT ![t] = AfterResponse(out)], outer')
    /\ semaphore' = SemRelease(semaphore)
    /\ UNCHANGED <<limiterVars, maxConcurrent, repositories, returned, issued, fetchVars,
                   connVars, saverVars>>

\* github_scrapper.py:66-71  a task is cancelled while it is inside _make_request
\* (waiting for a permit, for a grant, or for the response): CancelledError is
\* raised where the task waits and leaves every `async with` block it is in; the
\* permit, if it holds one, goes back.  For a snapshot task gather sees the
\* CancelledError as that child's exception; for the search request it leaves
\* get_repositories.
Cancel(t) ==
    /\ pc[t] \in {"start", "acquire", "sleeping", "granted", "inflight"}
    /\ semaphore' = IF pc[t] = "start" THEN semaphore ELSE SemRelease(semaphore)
    /\ wake' = [wake EXCEPT ![t] = 0]
    /\ IF t = 0
       THEN /\ returned' = RaiseFrom(RawError("CancelledError"))
            /\ pc' = [pc EXCEPT ![0] = "raised"]
            /\ UNCHANGED <<result, outer>>
       ELSE /\ result' = [result EXCEPT ![t] = Failed(RawError("CancelledError"))]
            /\ outer' = OuterAfter(outer, result', Len(repositories), t)
            /\ pc' = [pc EXCEPT ![t] = "done"]
            /\ UNCHANGED returned
    /\ UNCHANGED <<now, rate, period, timestamps, lock, grantAt, maxConcurrent, repositories,
                   issued, fetchVars, connVars, saverVars>>

\* github_scrapper.py:57  `return await asyncio.gather(*tasks)` resumes
GatherResume ==
    /\ pc[0] = "gather"
    /\ outer.kind # "none"
    /\ returned' = outer
    /\ pc' = [pc EXCEPT ![0] = IF outer.kind = "raise" THEN "raised" ELSE "returned"]
    /\ UNCHANGED <<limiterVars, maxConcurrent, semaphore, repositories, result, outer,
                   issued, fetchVars, connVars, saverVars>>

IdleScraper ==
    /\ maxConcurrent = 1
    /\ semaphore = 1
    /\ repositories = <<>>
    /\ result = [t \in Tasks |-> NoResult]
    /\ outer = NoList
    /\ returned = NoList
    /\ issued = [t \in Tasks |-> <<>>]

\* -------------------------------------------------------- ClickHouseSaver

MaxBatch == 2     \* batch_size ranges over 1..MaxBatch
MaxSave == 2      \* save_top_repositories is given 0..MaxSave records

MeasuredAt == "2026-01-01T00:00:00"

\* a writer that inserts the ranking facts first
TableOrderRankingsFirst == <<"rankings", "repositories", "author_commits">>

\* saver.py:86-88 with ClickHouseSettings' repositories_table, rankings_table and
\* author_commits_table: the tables in the order they are written
TableOrder == <<"repositories", "rankings", "author_commits">>

\* an object attribute read: the value, or AttributeError when the object has none
Has(obj, attr) == attr \in DOMAIN obj

\* a row the generator yields, or the exception evaluating it raises
Row(fields) == [raises |-> "", fields |-> fields]
RowRaises(exc) == [raises |-> exc, fields |-> <<>>]

\* saver.py:91-101  the repository-fact row of a snapshot
RepositoryRow(snapshot) ==
    LET r == snapshot.repository
    IN  IF /\ Has(r, "full_name") /\ Has(r, "name") /\ Has(r, "html_url")
           /\ Has(r, "stargazers_count") /\ Has(r, "forks_count")
        THEN Row(<<snapshot.measured_at, r.full_name, r.name, r.html_url,
                   r.stargazers_count, r.forks_count>>)
        ELSE RowRaises("AttributeError")

\* saver.py:106-113  the ranking row of a snapshot
RankingRow(snapshot) ==
    LET r == snapshot.repository
    IN  IF Has(r, "full_name")
        THEN Row(<<snapshot.measured_at, r.full_name, snapshot.position>>)
        ELSE RowRaises("AttributeError")

\* saver.py:118-127  the author-commit rows of a snapshot, one per author
AuthorCommitRows(snapshot) ==
    LET r == snapshot.repository
    IN  IF ~Has(r, "authors_commits_num_today") THEN <<RowRaises("AttributeError")>>
        ELSE [i \in 1..Len(r.authors_commits_num_today) |->
                LET a == r.authors_commits_num_today[i]
                IN  IF Has(r, "full_name") /\ Has(a, "author") /\ Has(a, "commits")
                    THEN Row(<<snapshot.measured_at, r.full_name, a.author, a.commits>>)
                    ELSE RowRaises("AttributeError")]

RECURSIVE FlatMap(_)
FlatMap(snaps) ==
    IF snaps = <<>> THEN <<>> ELSE AuthorCommitRows(Head(snaps)) \o FlatMap(Tail(snaps))

\* saver.py:91-101,106-113,118-127  the generator `rows` of each table
Rows(tbl, snaps) ==
    CASE tbl = "repositories" -> [i \in 1..Len(snaps) |-> RepositoryRow(snaps[i])]
      [] tbl = "rankings" -> [i \in 1..Len(snaps) |-> RankingRow(snaps[i])]
      [] OTHER -> FlatMap(snaps)

Min(a, b) == IF a <= b THEN a ELSE b

\* islice that yields one row more than asked for
IsliceOneMore(rows, from, n) == SubSeq(rows, from + 1, Min(from + n + 1, Len(rows)))

\* saver.py:143  islice(iterator, batch_size): the next n rows of the iterator that
\* has already yielded `from` rows
Islice(rows, from, n) == SubSeq(rows, from + 1, Min(from + n, Len(rows)))

\* the rows of a slice up to and with the first one whose evaluation raises
RECURSIVE Pulled(_)
Pulled(slice) ==
    IF slice = <<>> THEN <<>>
    ELSE IF Head(slice).raises # "" THEN <<Head(slice)>>
    ELSE <<Head(slice)>> \o Pulled(Tail(slice))

NoSaveError == [type |-> "none", table |-> "", cause |-> ""]
\* an insert failure that always names the first table
InsertErrorFirstTable(tbl, cause) ==
    [type |-> "ClickHouseSaverError", table |-> TableOrder[1], cause |-> cause]
\* saver.py:150  ClickHouseSaverError(f"Failed to insert data into {table}") from exc
InsertError(tbl, cause) ==
    [type |-> "ClickHouseSaverError", table |-> tbl, cause |-> cause]
\* saver.py:138  ClickHouseSaverError("ClickHouse client is not initialized")
NotInitialized == [type |-> "ClickHouseSaverError", table |-> "", cause |-> ""]
\* an exception that leaves save_top_repositories as it was raised
RawSaveError(type) == [type |-> type, table |-> "", cause |-> ""]

Running == [state |-> "running", error |-> NoSaveError]
Saved == [state |-> "returned", error |-> NoSaveError]
SaveFailed(error) == [state |-> "raised", error |-> error]

\* saver.py:86-88  the place of a table in the order the three are written
TablePos(name) == CHOOSE i \in 1..Len(TableOrder) : TableOrder[i] = name

\* saver.py:77-84  the snapshots: position = index in the input, from 1
Snapshots(repos) ==
    [i \in 1..Len(repos) |->
        [measured_at |-> MeasuredAt, repository |-> repos[i], position |-> i]]

\* saver.py:68-86  save_top_repositories up to its first insert: nothing to do for an
\* empty input, else the snapshots are built and the repository facts come first
SaveTopRepositories ==
    /\ spc = "call"
    /\ IF saveInput = <<>>
       THEN /\ spc' = "done"
            /\ saveOutcome' = Saved
            /\ UNCHANGED <<snapshots, table, client>>
       ELSE /\ client' = "open"                        \* line 76: _ensure_client()
            /\ snapshots' = Snapshots(saveInput)
            /\ spc' = "rows"
            /\ table' = TableOrder[1]
            /\ UNCHANGED saveOutcome
    /\ UNCHANGED <<batch_size, saveInput, cursor, batch, calls, limiterVars, pc,
                   scraperVars, fetchVars, connVars>>

\* saver.py:137-148  _insert_with_batches refuses to start without a client (lines
\* 137-138); else the next batch is pulled from the row generator: a row that
\* raises ends the call with that exception (line 143 is outside the try); an empty
\* batch ends the table (line 145) and the next table starts (lines 87, 88), or the
\* call returns; otherwise the batch goes to the store client (line 148)
TakeBatch ==
    /\ spc = "rows"
    /\ LET pulled == Pulled(Islice(Rows(table, snapshots), cursor, batch_size))
       IN  IF cursor = 0 /\ client = "none"
           THEN /\ saveOutcome' = SaveFailed(NotInitialized)
                /\ spc' = "done"
                /\ UNCHANGED <<cursor, batch, table>>
           ELSE IF pulled # <<>> /\ pulled[Len(pulled)].raises # ""
           THEN /\ saveOutcome' = SaveFailed(RawSaveError(pulled[Len(pulled)].raises))
                /\ spc' = "done"
                /\ UNCHANGED <<cursor, batch, table>>
           ELSE IF pulled = <<>>
           THEN IF TablePos(table) < Len(TableOrder)
                THEN /\ table' = TableOrder[TablePos(table) + 1]
                     /\ cursor' = 0
                     /\ UNCHANGED <<spc, saveOutcome, batch>>
                ELSE /\ spc' = "done"
                     /\ saveOutcome' = Saved
                     /\ UNCHANGED <<cursor, batch, table>>
           ELSE /\ batch' = [i \in 1..Len(pulled) |-> pulled[i].fields]
                /\ cursor' = cursor + Len(pulled)
                /\ spc' = "insert"
                /\ UNCHANGED <<saveOutcome, table>>
    /\ UNCHANGED <<batch_size, client, saveInput, snapshots, calls, limiterVars, pc,
                   scraperVars, fetchVars, connVars>>

\* saver.py:148,142  the store accepted the batch: the loop goes on
InsertOk ==
    /\ spc = "insert"
    /\ calls' = Append(calls, [table |-> table, rows |-> batch, ok |-> TRUE])
    /\ batch' = <<>>
    /\ spc' = "rows"
    /\ UNCHANGED <<table, batch_size, client, saveInput, snapshots, cursor, saveOutcome,
                   limiterVars, pc, scraperVars, fetchVars, connVars>>

\* saver.py:148-150  the insert raised: ClickHouseSaverError naming the table
InsertFails ==
    /\ spc = "insert"
    /\ calls' = Append(calls, [table |-> table, rows |-> batch, ok |-> FALSE])
    /\ batch' = <<>>
    /\ saveOutcome' = SaveFailed(InsertError(table, "Exception"))
    /\ spc' = "done"
    /\ UNCHANGED <<table, batch_size, client, saveInput, snapshots, cursor, limiterVars, pc,
                   scraperVars, fetchVars, connVars>>

\* the list get_repositories returned is handed to save_top_repositories
Handoff ==
    /\ pc[0] = "returned"
    /\ spc = "idle"
    /\ saveInput' = returned.list
    /\ spc' = "call"
    /\ UNCHANGED <<table, batch_size, client, snapshots, cursor, batch, calls, saveOutcome,
                   limiterVars, pc, scraperVars, fetchVars, connVars>>

IdleSaver ==
    /\ spc = "idle"
    /\ table = ""
    /\ batch_size = 1
    /\ client = "none"
    /\ saveInput = <<>>
    /\ snapshots = <<>>
    /\ cursor = 0
    /\ batch = <<>>
    /\ calls = <<>>
    /\ saveOutcome = Running

\* a record with the attributes the writer reads (spec.md section 3), made of the
\* same data as a Repository of the fetcher
WriterShaped(repo) ==
    [name |-> repo.name,
     full_name |-> <<repo.owner, "/", repo.name>>,
     html_url |-> <<"https://github.com/", repo.owner, "/", repo.name>>,
     stargazers_count |-> repo.stars,
     forks_count |-> repo.forks,
     authors_commits_num_today |->
        [i \in 1..Len(repo.authors_commits_num_today) |->
            [author |-> repo.authors_commits_num_today[i].author,
             commits |-> repo.authors_commits_num_today[i].commits_num]]]

\* the commits a fetch may have found for a repository
FetchedCommits ==
    { <<>>, <<C_alice, C_bob, C_alice>>, <<C_bob, C_mail, C_anon, C_alice, C_bob>> }

\* the lists get_repositories can return for n repositories
FetcherLists(n) ==
    { [i \in 1..n |-> Repository(i, RepoCatalogue[i], AggregateCommits(c[i]))] :
        c \in [1..n -> FetchedCommits] }

\* the inputs of save_top_repositories: each record as the fetcher built it, or
\* carrying the attributes the writer reads
SaverInputs ==
    UNION { { [i \in 1..n |-> IF shaped[i] THEN WriterShaped(list[i]) ELSE list[i]] :
                list \in FetcherLists(n), shaped \in [1..n -> BOOLEAN] } :
            n \in 0..MaxSave }

\* ------------------------------------------- one fetch against the remote API

\* every response the request for a repository's commits can meet
CommitsResponses(pages) ==
    {TransportFailure(exc) : exc \in TransportExceptions}
    \cup {HttpResp(sl[1], sl[2], "body", form, JsonList(FirstPage(pages)), Len(pages) > 1) :
            sl \in {x \in StatusLines : x[1] = 200}, form \in BodyForms}
    \cup {HttpResp(200, "OK", "body", "json", JsonDict(<<>>, FALSE), FALSE)}
    \cup {HttpResp(sl[1], sl[2], "body", "json", JsonDict(<<>>, FALSE), FALSE) :
            sl \in {x \in StatusLines : x[1] # 200}}

\* github_scrapper.py:66-69  the request for the commits is issued (no page cursor is
\* ever passed: params are since and per_page)
FetchSend ==
    /\ fpc = "start"
    /\ fpc' = "inflight"
    /\ fetchRequested' = Append(fetchRequested, 1)
    /\ UNCHANGED <<fetchItem, fetchPosition, fetchPages, fetchResp, fetchReply,
                   fetchCommits, fetchOutcome, limiterVars, pc, scraperVars,
                   saverVars, connVars>>

\* github_scrapper.py:70-76,102-125  the response arrives; the rest of
\* _build_repository_snapshot runs without suspending
FetchReceive ==
    /\ fpc = "inflight"
    /\ \E resp \in CommitsResponses(fetchPages) :
         LET out == MakeRequest(CommitsEndpoint(fetchItem.owner, fetchItem.name), resp)
         IN  /\ fetchResp' = resp
             /\ fetchReply' = out
             /\ fetchCommits' = IF GetRepositoryCommits(out).kind = "return"
                                THEN out.json.items ELSE <<>>
             /\ fetchOutcome' = BuildRepositorySnapshot(fetchPosition, fetchItem, out)
    /\ fpc' = "done"
    /\ UNCHANGED <<fetchItem, fetchPosition, fetchPages, fetchRequested, limiterVars, pc,
                   scraperVars, saverVars, connVars>>

\* --------------------------------------------- _aggregate_commits on its own

MaxCommits == 3   \* a sampled commit list has 0..MaxCommits commits

\* what a member login, name or email can be: missing, null, empty, or a value
FieldValues(v) == {Absent, Null, "", v}

\* every commit record: each container missing, null or an object, each field of an
\* object missing, null, empty or a value
AllCommits ==
    { Commit(a, l, k, ca, n, e) :
        a \in {"missing", "null", "object"}, l \in FieldValues("alice"),
        k \in {"missing", "null", "object"}, ca \in {"missing", "null", "object"},
        n \in FieldValues("Bob"), e \in FieldValues("c@x.com") }

\* the records among them that name no member of a container that is not there
WellFormed(c) ==
    /\ c.author # "object" => c.login = Absent
    /\ c.commit # "object" => c.commit_author = "missing"
    /\ c.commit_author # "object" => (c.name = Absent /\ c.email = Absent)

CommitSample == {C_alice, C_bob, C_mail, C_anon, C_bobby, C_ghost}

\* the commit lists _aggregate_commits is applied to: every single commit record,
\* and every list of up to MaxCommits sampled commits
CommitLists ==
    { <<c>> : c \in {x \in AllCommits : WellFormed(x)} }
    \cup SeqsUpTo(CommitSample, MaxCommits)

\* github_scrapper.py:115-125  _aggregate_commits(commits) and the Repository
Aggregate ==
    /\ fpc = "aggregate"
    /\ fetchOutcome' = SnapshotOf(fetchPosition, fetchItem, fetchCommits)
    /\ fpc' = "done"
    /\ UNCHANGED <<fetchItem, fetchPosition, fetchPages, fetchRequested, fetchResp,
                   fetchReply, fetchCommits, limiterVars, pc, scraperVars, saverVars,
                   connVars>>

IdleFetch ==
    /\ fpc = "idle"
    /\ fetchItem = RepoCatalogue[1]
    /\ fetchPosition = 0
    /\ fetchPages = <<>>
    /\ fetchRequested = <<>>
    /\ fetchResp = NoResp
    /\ fetchReply = NoValue
    /\ fetchCommits = <<>>
    /\ fetchOutcome = NoResult

\* ------------------------------ ClickHouseSaver: connect, save, close together
\* Concurrent callers share one ClickHouseSaver.  Each runs one of: close();
\* save_top_repositories(non-empty list); `async with saver.connect():` with at most
\* one save_top_repositories inside.  An `await` of a library call (insert, close) is
\* a point where the event loop may run another caller before this one goes on.

MaxCallers == 2    \* callers 1..MaxCallers share one ClickHouseSaver

Callers == 1..MaxCallers

\* what a caller does with the connection: the object is the how-many-th of its kind
Event(what, obj, by) == [what |-> what, obj |-> obj, by |-> by]

\* how many objects of a kind were constructed: the last of them is the one the
\* field (_session, _client) refers to while it is not None
Built(log, what) == CopiesIn(Event(what, 0, 0), log)

Logged(log, e) == log (+) SetToBag({e})

\* a check that never finds a client
NeedsClientAlways(cl) == TRUE

\* saver.py:54  `if self._client is not None: return`
NeedsClient(cl) == cl = "none"

\* saver.py:52-66  _ensure_client: under the lock (free whenever a caller gets here:
\* no holder suspends), construct the session and the client unless a client exists
EnsureClient ==
    IF NeedsClient(client)
    THEN /\ session' = "open"
         /\ client' = "open"
    ELSE UNCHANGED <<session, client>>

\* the log after _ensure_client
Ensured(log) ==
    IF NeedsClient(client)
    THEN Logged(Logged(log, Event("ClientSession()", 0, 0)), Event("ChClient()", 0, 0))
    ELSE log

IdleCaller == [at |-> "none", inside |-> FALSE, n |-> 0]

\* saver.py:36-40  `async with saver.connect()` is entered: _ensure_client, yield self
Connect(c) ==
    /\ cpc[c].at = "idle"
    /\ EnsureClient
    /\ connLog' = Ensured(connLog)
    /\ cpc' = [cpc EXCEPT ![c] = [@ EXCEPT !.at = "inside", !.inside = TRUE]]
    /\ UNCHANGED <<limiterVars, pc, scraperVars, fetchVars, spc, table, batch_size, saveInput,
                   snapshots, cursor, batch, calls, saveOutcome>>

\* saver.py:73-86,137-148  save_top_repositories with a non-empty list, from its
\* call to its first suspension: _ensure_client, the snapshots, the check of line
\* 137 and the first insert call on self._client (line 148)
Save(c) ==
    /\ cpc[c].at \in {"idle", "inside"}
    /\ cpc[c].n = 0
    /\ EnsureClient
    /\ connLog' = Logged(Ensured(connLog), Event("insert", Built(Ensured(connLog), "ChClient()"), c))
    /\ cpc' = [cpc EXCEPT ![c] = [@ EXCEPT !.at = "insert", !.n = 1]]
    /\ UNCHANGED <<limiterVars, pc, scraperVars, fetchVars, spc, table, batch_size, saveInput,
                   snapshots, cursor, batch, calls, saveOutcome>>

\* saver.py:142-148  an insert returned and the save goes on (next batch, or lines
\* 87, 88 and 137): the next insert call goes to what self._client is now
InsertNext(c) ==
    /\ cpc[c].at = "insert"
    /\ cpc[c].n < Len(TableOrder)
    /\ client = "open"
    /\ connLog' = Logged(connLog, Event("insert", Built(connLog, "ChClient()"), c))
    /\ cpc' = [cpc EXCEPT ![c] = [@ EXCEPT !.n = @ + 1]]
    /\ UNCHANGED <<limiterVars, pc, scraperVars, fetchVars, saverVars, session>>

\* saver.py:88,138,145,150  the save ends: all rows are written, or an insert raised,
\* or self._client is None by now
SaveEnds(c) ==
    /\ cpc[c].at = "insert"
    /\ cpc' = [cpc EXCEPT ![c] = [@ EXCEPT !.at = IF cpc[c].inside THEN "inside" ELSE "done"]]
    /\ UNCHANGED <<limiterVars, pc, scraperVars, fetchVars, saverVars, session, connLog>>

\* saver.py:48-49  the second half of close(): `if self._session is not None`, then
\* the call of self._session.close(), awaited
CloseSessionOrDone(c, log) ==
    IF session = "open"
    THEN /\ connLog' = Logged(log, Event("session.close()", Built(log, "ClientSession()"), 0))
         /\ cpc' = [cpc EXCEPT ![c] = [@ EXCEPT !.at = "close_session", !.inside = FALSE]]
    ELSE /\ connLog' = log
         /\ cpc' = [cpc EXCEPT ![c] = [@ EXCEPT !.at = "done", !.inside = FALSE]]

\* saver.py:44-49  close() begins: `if self._client is not None`, then the call of
\* self._client.close(), awaited; without a client, on to the session
CloseBegin(c) ==
    IF client = "open"
    THEN /\ connLog' = Logged(connLog, Event("client.close()", Built(connLog, "ChClient()"), 0))
         /\ cpc' = [cpc EXCEPT ![c] = [@ EXCEPT !.at = "close_client", !.inside = FALSE]]
    ELSE CloseSessionOrDone(c, connLog)

\* saver.py:44  close() called by a caller of its own
Close(c) ==
    /\ cpc[c].at = "idle"
    /\ CloseBegin(c)
    /\ UNCHANGED <<limiterVars, pc, scraperVars, fetchVars, saverVars, session>>

\* saver.py:41-42  the `async with saver.connect()` block is left: finally close()
Leave(c) ==
    /\ cpc[c].at = "inside"
    /\ CloseBegin(c)
    /\ UNCHANGED <<limiterVars, pc, scraperVars, fetchVars, saverVars, session>>

\* saver.py:46-49  `await self._client.close()` is over: self._client = None, then
\* the session
CloseClientDone(c) ==
    /\ cpc[c].at = "close_client"
    /\ client' = "none"
    /\ CloseSessionOrDone(c, connLog)
    /\ UNCHANGED <<limiterVars, pc, scraperVars, fetchVars, spc, table, batch_size, saveInput,
                   snapshots, cursor, batch, calls, saveOutcome, session>>

\* saver.py:49-50  `await self._session.close()` is over: self._session = None
CloseSessionDone(c) ==
    /\ cpc[c].at = "close_session"
    /\ session' = "none"
    /\ cpc' = [cpc EXCEPT ![c] = [@ EXCEPT !.at = "done"]]
    /\ UNCHANGED <<limiterVars, pc, scraperVars, fetchVars, saverVars, connLog>>

IdleConn ==
    /\ cpc = [c \in Callers |-> IdleCaller]
    /\ session = "none"
    /\ connLog = EmptyBag

IdleLimiter ==
    /\ now = 0
    /\ rate = 1
    /\ period = 1
    /\ timestamps = <<>>
    /\ lock = {}
    /\ pc = [t \in Tasks |-> "none"]
    /\ wake = [t \in Tasks |-> 0]
    /\ grantAt = [t \in Tasks |-> <<>>]

\* RateLimiter.__init__ (rate >= 1, period > 0), every task about to call acquire()
InitLimiter ==
    /\ now = 0
    /\ rate \in 1..MaxRate
    /\ period \in 1..MaxPeriod
    /\ timestamps = <<>>
    /\ lock = {}
    /\ pc = [t \in Tasks |-> "acquire"]
    /\ wake = [t \in Tasks |-> 0]
    /\ grantAt = [t \in Tasks |-> <<>>]
    /\ IdleScraper
    /\ IdleFetch
    /\ IdleSaver
    /\ IdleConn

NextLimiter ==
    \/ \E t \in Tasks : Grant(t)
    \/ \E t \in Tasks : Backoff(t)
    \/ \E t \in Tasks : Wake(t)
    \/ \E t \in Tasks : CallAgain(t)
    \/ Tick

SpecLimiter == InitLimiter /\ [][NextLimiter]_vars

\* every task calls acquire() once; time passes while tasks run (Tick) and while
\* the loop waits for a timer (LoopIdle)
NextLimiterLive ==
    \/ \E t \in Tasks : Grant(t)
    \/ \E t \in Tasks : Backoff(t)
    \/ \E t \in Tasks : Wake(t)
    \/ Tick
    \/ LoopIdle

\* the event loop runs every task that is ready to run and every timer that is due,
\* and the clock advances while all tasks wait
SpecLimiterLive ==
    /\ InitLimiter
    /\ [][NextLimiterLive]_vars
    /\ \A t \in Tasks : WF_vars(Grant(t)) /\ WF_vars(Backoff(t)) /\ WF_vars(Wake(t))
    /\ WF_vars(LoopIdle)

InitFetch ==
    /\ IdleLimiter
    /\ IdleScraper
    /\ fpc = "start"
    /\ fetchItem \in {RepoCatalogue[i] : i \in 1..2}
    /\ fetchPosition \in 1..2
    /\ fetchPages \in PageChains
    /\ fetchRequested = <<>>
    /\ fetchResp = NoResp
    /\ fetchReply = NoValue
    /\ fetchCommits = <<>>
    /\ fetchOutcome = NoResult
    /\ IdleSaver
    /\ IdleConn

NextFetch == FetchSend \/ FetchReceive

SpecFetch == InitFetch /\ [][NextFetch]_vars

\* _build_repository_snapshot has its commits and is about to aggregate them
InitAggregate ==
    /\ IdleLimiter
    /\ IdleScraper
    /\ fpc = "aggregate"
    /\ fetchItem = RepoCatalogue[1]
    /\ fetchPosition = 1
    /\ fetchPages = <<>>
    /\ fetchRequested = <<>>
    /\ fetchResp = NoResp
    /\ fetchReply = NoValue
    /\ fetchCommits \in CommitLists
    /\ fetchOutcome = NoResult
    /\ IdleSaver
    /\ IdleConn

NextAggregate == Aggregate

SpecAggregate == InitAggregate /\ [][NextAggregate]_vars

\* GithubReposScrapper.__init__ (lines 33-35), get_repositories just called
Init ==
    /\ now = 0
    /\ rate \in 1..MaxRate              \* requests_per_second
    /\ period = MaxPeriod               \* RateLimiter's default period, 1.0 s, in ticks
    /\ timestamps = <<>>
    /\ lock = {}
    /\ pc = [t \in Tasks |-> IF t = 0 THEN "start" ELSE "none"]
    /\ wake = [t \in Tasks |-> 0]
    /\ grantAt = [t \in Tasks |-> <<>>]
    /\ maxConcurrent \in 1..MaxConcurrent
    /\ semaphore = Semaphore(maxConcurrent)
    /\ repositories = <<>>
    /\ result = [t \in Tasks |-> NoResult]
    /\ outer = NoList
    /\ returned = NoList
    /\ issued = [t \in Tasks |-> <<>>]
    /\ IdleFetch
    /\ IdleSaver
    /\ IdleConn

Next ==
    \/ \E t \in Tasks : SemAcquire(t)
    \/ \E t \in Tasks : Grant(t)
    \/ \E t \in Tasks : Backoff(t)
    \/ \E t \in Tasks : Wake(t)
    \/ \E t \in Tasks : SendRequest(t)
    \/ SearchResponse
    \/ \E t \in Tasks : CommitsResponse(t)
    \/ GatherResume
    \/ Handoff
    \/ SaveTopRepositories
    \/ Tick

Spec == Init /\ [][Next]_vars

\* get_repositories as above, with tasks that may be cancelled from outside
NextCancel ==
    \/ Next
    \/ \E t \in Tasks : Cancel(t)

SpecCancel == Init /\ [][NextCancel]_vars

\* ClickHouseSaver with its client ready, save_top_repositories just called
InitSaver ==
    /\ IdleLimiter
    /\ IdleScraper
    /\ IdleFetch
    /\ spc = "call"
    /\ table = ""
    /\ batch_size \in 1..MaxBatch
    /\ client \in {"none", "open"}     \* connect() may have run before
    /\ saveInput \in SaverInputs
    /\ snapshots = <<>>
    /\ cursor = 0
    /\ batch = <<>>
    /\ calls = <<>>
    /\ saveOutcome = Running
    /\ IdleConn

NextSaver == SaveTopRepositories \/ TakeBatch \/ InsertOk \/ InsertFails

SpecSaver == InitSaver /\ [][NextSaver]_vars

\* ClickHouseSaver.__init__ (saver.py:30-34): no session, no client; every caller
\* about to start
InitConn ==
    /\ IdleLimiter
    /\ IdleScraper
    /\ IdleFetch
    /\ IdleSaver
    /\ cpc = [c \in Callers |-> [IdleCaller EXCEPT !.at = "idle"]]
    /\ session = "none"
    /\ connLog = EmptyBag

NextConn ==
    \/ \E c \in Callers : Connect(c)
    \/ \E c \in Callers : Save(c)
    \/ \E c \in Callers : InsertNext(c)
    \/ \E c \in Callers : SaveEnds(c)
    \/ \E c \in Callers : Close(c)
    \/ \E c \in Callers : Leave(c)
    \/ \E c \in Callers : CloseClientDone(c)
    \/ \E c \in Callers : CloseSessionDone(c)

SpecConn == InitConn /\ [][NextConn]_vars


\* ------------------------------------------------------------------ claims

\* the grants (task, number of its grant) given so far
Grants == {g \in Tasks \X (1..MaxCalls) : g[2] <= Len(grantAt[g[1]])}

\* the grants whose grant time lies in the trailing window (t - period, t]
GrantsInWindow(t) ==
    {g \in Grants : t - period < grantAt[g[1]][g[2]] /\ grantAt[g[1]][g[2]] <= t}

\* C1: in every reachable state and for every window end t, the number of grants
\* whose grant time falls in the trailing window (t - period, t] is at most rate.
C1_RateBound == \A t \in 0..now : Cardinality(GrantsInWindow(t)) <= rate

\* C1 witness: more callers were granted than one window admits, the last of them
\* after sleeping until an earlier grant had left the window, and the window is
\* full again.
C1_Witness ==
    /\ Cardinality(Grants) > rate
    /\ Len(timestamps) = rate
    /\ \E c \in Tasks : grantAt[c] # <<>> /\ grantAt[c][1] >= period

\* the items of all pages of a chain, in page order
RECURSIVE Concat(_)
Concat(pages) == IF pages = <<>> THEN <<>> ELSE Head(pages) \o Concat(Tail(pages))

\* C3: when the commit fetch succeeds, the pages were requested in cursor order up
\* to the last page of the chain, and the commits handed to aggregation are the
\* concatenation of the items of all pages in page order.
C3_Pagination ==
    (fpc = "done" /\ fetchReply.kind = "return" /\ fetchReply.json.type = "list") =>
        /\ fetchRequested = [i \in 1..Max(1, Len(fetchPages)) |-> i]
        /\ fetchCommits = Concat(fetchPages)

\* C7: one request ends in the outcome its response determines: 200 returns the
\* parsed body; 404, 403 and 422 each raise the client's error for that status; any
\* other non-200 status raises an error carrying the status and the response body;
\* a transport failure raises the network error wrapping its cause.
C7_Classification ==
    fpc = "done" =>
        /\ (fetchResp.kind = "http" /\ fetchResp.status = 200 /\ fetchResp.form = "json")
              => fetchReply = Return(fetchResp.json)
        /\ (fetchResp.kind = "http" /\ fetchResp.status \in {404, 403, 422})
              => /\ fetchReply.kind = "raise"
                 /\ fetchReply.error.type = "RuntimeError"
                 /\ fetchReply.error.status = fetchResp.status
        /\ (fetchResp.kind = "http" /\ fetchResp.status \notin {200, 404, 403, 422})
              => /\ fetchReply.kind = "raise"
                 /\ fetchReply.error.type = "RuntimeError"
                 /\ fetchReply.error.status = fetchResp.status
                 /\ fetchReply.error.detail = fetchResp.text
        /\ fetchResp.kind = "transport"
              => /\ fetchReply.kind = "raise"
                 /\ fetchReply.error.type = "RuntimeError"
                 /\ fetchReply.error.text = "Network error during"
                 /\ fetchReply.error.cause = fetchResp.exc

\* the requests in flight: session.request issued, the response not yet read
InFlight == {t \in Tasks : pc[t] = "inflight"}

\* C2: in every reachable state the number of HTTP requests in flight (the search
\* request and the commit requests together) is at most max_concurrent_requests.
C2_ConcurrencyCap == Cardinality(InFlight) <= maxConcurrent

\* C2 witness: as many requests are in flight as there are permits, while another
\* _make_request call waits for a permit.
C2_Witness ==
    /\ Cardinality(InFlight) = maxConcurrent
    /\ \E t \in Tasks : pc[t] = "start"
    /\ \E t \in InFlight : t # 0

\* the batches the store client received for a table, in call order
RECURSIVE BatchesOf(_, _)
BatchesOf(tbl, cs) ==
    IF cs = <<>> THEN <<>>
    ELSE (IF Head(cs).table = tbl THEN <<Head(cs).rows>> ELSE <<>>) \o BatchesOf(tbl, Tail(cs))

\* the tables whose row stream _insert_with_batches has consumed to its end
Completed(tbl) ==
    /\ table # ""
    /\ \/ TablePos(tbl) < TablePos(table)
       \/ saveOutcome = Saved

\* the tuples a row stream yields
Fields(rows) == [i \in 1..Len(rows) |-> rows[i].fields]

CeilDiv(n, b) == (n + b - 1) \div b

\* C4: once _insert_with_batches has consumed a stream of n rows with batch size b
\* and no insert failed, it has issued exactly ceil(n/b) insert calls for the table,
\* each but the last of b rows, the last of n - b*(ceil(n/b)-1) rows, none empty,
\* and the batches concatenated in call order are the row stream.
C4_Batching ==
    \A i \in 1..Len(TableOrder) :
        Completed(TableOrder[i]) =>
            LET rows == Rows(TableOrder[i], snapshots)
                n == Len(rows)
                b == batch_size
                bs == BatchesOf(TableOrder[i], calls)
            IN  /\ Len(bs) = CeilDiv(n, b)
                /\ \A j \in 1..Len(bs) : Len(bs[j]) > 0
                /\ \A j \in 1..(Len(bs) - 1) : Len(bs[j]) = b
                /\ Len(bs) > 0 => Len(bs[Len(bs)]) = n - b * (CeilDiv(n, b) - 1)
                /\ Concat(bs) = Fields(rows)

\* C4 witness: the call returned and one stream was written in three calls, two
\* full batches and a shorter last one (as 1,237 rows in batches of 500 are).
C4_Witness ==
    /\ saveOutcome = Saved
    /\ \E i \in 1..Len(TableOrder) :
         LET bs == BatchesOf(TableOrder[i], calls)
         IN  /\ Len(bs) = 3
             /\ Len(bs[1]) = batch_size /\ Len(bs[2]) = batch_size
             /\ Len(bs[3]) < batch_size

\* C5 (state part): when an insert call failed, it is the last call the store client
\* received, every call before it was accepted and is in the log as issued, the call
\* has ended with a ClickHouseSaverError naming the table of the failed call, and
\* when that table is the ranking table all repository-fact rows are committed.
C5_FailureState ==
    \A i \in 1..Len(calls) :
        ~calls[i].ok =>
            /\ i = Len(calls)
            /\ \A j \in 1..(i - 1) : calls[j].ok
            /\ spc = "done"
            /\ saveOutcome.state = "raised"
            /\ saveOutcome.error.type = "ClickHouseSaverError"
            /\ saveOutcome.error.table = calls[i].table
            /\ calls[i].table = TableOrder[2] =>
                  Concat(BatchesOf(TableOrder[1], calls)) =
                      Fields(Rows(TableOrder[1], snapshots))

\* C5 (step part): no step changes or removes a call already in the log, and after
\* a failed insert no step issues another call.
C5_FailureStep ==
    /\ \A i \in 1..Len(calls) : Len(calls') >= i /\ calls'[i] = calls[i]
    /\ (\E i \in 1..Len(calls) : ~calls[i].ok) => calls' = calls

\* C5: partial-failure isolation of save_top_repositories: chunks inserted before a
\* failed insert stay committed, no insert call follows the failed one, and the call
\* ends with a ClickHouseSaverError naming the failed insert's table.
C5_FailureIsolation == [](C5_FailureState) /\ [][C5_FailureStep]_vars

\* C5 witness: the ranking insert failed after the repository facts were committed.
C5_Witness ==
    /\ calls # <<>>
    /\ ~calls[Len(calls)].ok
    /\ calls[Len(calls)].table = TableOrder[2]
    /\ BatchesOf(TableOrder[1], calls) # <<>>
    /\ saveOutcome.state = "raised"

\* the calls the store accepted
RECURSIVE Accepted(_)
Accepted(cs) ==
    IF cs = <<>> THEN <<>>
    ELSE (IF Head(cs).ok THEN <<Head(cs)>> ELSE <<>>) \o Accepted(Tail(cs))

\* the rows committed to a table
Committed(tbl) == Concat(BatchesOf(tbl, Accepted(calls)))

\* the rows a list of fetched records stands for: those of the same data carried
\* under the attribute names the writer reads
ExpectedRows(tbl, repos) ==
    Fields(Rows(tbl, Snapshots([i \in 1..Len(repos) |-> WriterShaped(repos[i])])))

\* C6: a non-empty list as get_repositories builds it, written to a store that
\* accepts every insert, is written without error: one repository-fact row per
\* repository, ranking rows with positions 1..N in input order, and one
\* author-commit row per (repository, author) carrying the fetched commit count.
C6_EndToEnd ==
    ( /\ spc = "done"
      /\ saveInput # <<>>
      /\ saveInput \in FetcherLists(Len(saveInput))
      /\ \A i \in 1..Len(calls) : calls[i].ok )
    => /\ saveOutcome = Saved
       /\ Len(Committed(TableOrder[1])) = Len(saveInput)
       /\ \A i \in 1..Len(TableOrder) :
             Committed(TableOrder[i]) = ExpectedRows(TableOrder[i], saveInput)
       /\ \A i \in 1..Len(Committed(TableOrder[2])) : Committed(TableOrder[2])[i][3] = i

\* C8: whatever fails below the client or while the writer builds or inserts a
\* chunk, the exception that reaches the caller is the client's error
\* (RuntimeError) or ClickHouseSaverError, never the lower-level exception.
C8_ErrorBoundary ==
    /\ (spc = "done" /\ saveOutcome.state = "raised")
          => saveOutcome.error.type = "ClickHouseSaverError"
    /\ (fpc = "done" /\ fetchOutcome.kind = "raise")
          => fetchOutcome.error.type = "RuntimeError"

\* C9: when every snapshot task succeeded, get_repositories returns one record per
\* search item, the i-th record built from the i-th item and carrying position i,
\* whatever order the tasks ran and finished in; and the writer's i-th snapshot is
\* the i-th record of its input with ranking position i.
C9_RankingOrder ==
    /\ pc[0] = "returned" =>
          /\ Len(returned.list) = Len(repositories)
          /\ \A i \in 1..Len(repositories) :
                /\ returned.list[i].name = repositories[i].name
                /\ returned.list[i].owner = repositories[i].owner
                /\ returned.list[i].position = i
                /\ returned.list[i] = result[i].value
    /\ spc \notin {"idle", "call"} =>
          /\ saveInput = returned.list
          /\ Len(snapshots) = Len(saveInput)
          /\ \A i \in 1..Len(snapshots) :
                /\ snapshots[i].repository = saveInput[i]
                /\ snapshots[i].position = i
                /\ RankingRow(snapshots[i]).raises = "" =>
                      RankingRow(snapshots[i]).fields[3] = i

\* C9 witness: a later item's task was granted its request before an earlier
\* item's task, both succeeded, and the writer has numbered the returned records.
C9_Witness ==
    /\ pc[0] = "returned"
    /\ Len(snapshots) >= 2
    /\ \E i, j \in 1..Len(repositories) :
          i < j /\ grantAt[j][1] < grantAt[i][1]

\* the snapshot tasks that failed
FailedTasks == {t \in 1..Len(repositories) : result[t].kind = "raise"}

\* C10: as soon as a snapshot task has failed, gather's future holds the error of a
\* failed task, and get_repositories never returns a list: it raises that error;
\* it returns a list only when the search and every snapshot task succeeded.
C10_FailurePolicy ==
    /\ FailedTasks # {} =>
          /\ outer.kind = "raise"
          /\ \E t \in FailedTasks : outer.error = result[t].error
          /\ pc[0] \in {"gather", "raised"}
    /\ pc[0] = "raised" =>
          /\ returned.kind = "raise"
          /\ returned.list = <<>>
          /\ repositories # <<>> => returned = outer
    /\ pc[0] = "returned" =>
          /\ returned.kind = "return"
          /\ \A t \in 1..Len(repositories) : result[t].kind = "return"

\* C10 witness: get_repositories has raised the error of a failed snapshot task
\* while another snapshot task had succeeded.
C10_Witness ==
    /\ pc[0] = "raised"
    /\ \E t \in FailedTasks : returned.error = result[t].error
    /\ \E t \in 1..Len(repositories) : result[t].kind = "return"

\* the saver has made no close call on a client or a session
NoCloseYet ==
    \A e \in BagToSet(connLog) : e.what \notin {"client.close()", "session.close()"}

\* C11: as long as no close() has touched the connection, however connect() and
\* save_top_repositories() calls of concurrent callers interleave, at most one
\* ClientSession and at most one ChClient were constructed, and every insert call of
\* every caller went to that one client.
C11_OnceOnly ==
    NoCloseYet =>
        /\ Built(connLog, "ClientSession()") <= 1
        /\ Built(connLog, "ChClient()") <= 1
        /\ \A e \in BagToSet(connLog) : e.what = "insert" => e.obj = 1

\* C11 witness: no close yet, one caller is inside connect() and has inserted, another
\* caller has inserted through save_top_repositories, and one client was constructed.
C11_Witness ==
    /\ NoCloseYet
    /\ Built(connLog, "ChClient()") = 1
    /\ \E c, d \in Callers :
          /\ c # d
          /\ cpc[c].inside
          /\ \E e \in BagToSet(connLog) : e.what = "insert" /\ e.by = c
          /\ \E e \in BagToSet(connLog) : e.what = "insert" /\ e.by = d

\* the close calls the saver made on the g-th object of a kind
Closes(what, g) == CopiesIn(Event(what, g, 0), connLog)

\* C12: however close() calls interleave, every client and every session the saver
\* constructed is closed at most once, and once the saver has let go of it (the field
\* is None again, or refers to a later object) it was closed exactly once.
C12_CloseOnce ==
    /\ \A g \in 1..Built(connLog, "ChClient()") :
          /\ Closes("client.close()", g) <= 1
          /\ (client = "none" \/ g < Built(connLog, "ChClient()"))
                => Closes("client.close()", g) = 1
    /\ \A g \in 1..Built(connLog, "ClientSession()") :
          /\ Closes("session.close()", g) <= 1
          /\ (session = "none" \/ g < Built(connLog, "ClientSession()"))
                => Closes("session.close()", g) = 1

\* the identity a commit is credited to by the precedence login, display name, email,
\* each counted only when its member is there and is a non-empty string; Absent when
\* the commit has none of the three
Present(container, value) == container /\ value \notin {Absent, Null, ""}

Credited(c) ==
    IF Present(c.author = "object", c.login) THEN c.login
    ELSE IF Present(c.commit = "object" /\ c.commit_author = "object", c.name) THEN c.name
    ELSE IF Present(c.commit = "object" /\ c.commit_author = "object", c.email) THEN c.email
    ELSE Absent

\* the commits of the input credited to an identity
CreditedTo(a) == {i \in 1..Len(fetchCommits) : Credited(fetchCommits[i]) = a}

\* C13: aggregation of any commit list finishes without error, and its output
\* credits every commit to its linked login, else its author's display name, else
\* its author's email, and skips a commit with none of the three: the authors of the
\* output are exactly the identities so resolved, each with the number of its commits.
C13_AuthorPrecedence ==
    fpc = "done" =>
        /\ fetchOutcome.kind = "return"
        /\ LET out == fetchOutcome.value.authors_commits_num_today
           IN  /\ \A i \in 1..Len(fetchCommits) :
                     Credited(fetchCommits[i]) # Absent =>
                        \E j \in 1..Len(out) :
                           /\ out[j].author = Credited(fetchCommits[i])
                           /\ out[j].commits_num =
                                 Cardinality(CreditedTo(Credited(fetchCommits[i])))
               /\ \A j \in 1..Len(out) : CreditedTo(out[j].author) # {}
               /\ \A j \in 1..Len(out) : out[j].author # Absent

\* the place of the first commit of the input that resolves to an identity
FirstSeen(a) == CHOOSE i \in CreditedTo(a) : \A k \in CreditedTo(a) : i <= k

RECURSIVE SumCounts(_)
SumCounts(entries) ==
    IF entries = <<>> THEN 0 ELSE Head(entries).commits_num + SumCounts(Tail(entries))

\* C14: whenever _aggregate_commits returns, its output has at most one entry per
\* author, every count is at least 1 and is the number of input commits resolved to
\* that author, the counts sum to the number of input commits that resolve to an
\* identity, and the entries are in non-increasing order of count, entries of equal
\* count in the order their authors were first seen.
C14_AggregationInvariant ==
    (fpc = "done" /\ fetchOutcome.kind = "return") =>
        LET out == fetchOutcome.value.authors_commits_num_today
        IN  /\ \A i, j \in 1..Len(out) : out[i].author = out[j].author => i = j
            /\ \A i \in 1..Len(out) :
                  /\ out[i].commits_num >= 1
                  /\ out[i].commits_num = Cardinality(CreditedTo(out[i].author))
            /\ SumCounts(out) =
                  Cardinality({i \in 1..Len(fetchCommits) : Credited(fetchCommits[i]) # Absent})
            /\ \A i, j \in 1..Len(out) :
                  i < j =>
                     \/ out[i].commits_num > out[j].commits_num
                     \/ /\ out[i].commits_num = out[j].commits_num
                        /\ FirstSeen(out[i].author) < FirstSeen(out[j].author)

\* C14 witness: the output has several entries, and the first has the higher count
\* although its author was first seen after the second's.
C14_Witness ==
    /\ fpc = "done" /\ fetchOutcome.kind = "return"
    /\ LET out == fetchOutcome.value.authors_commits_num_today
       IN  /\ Len(out) >= 2
           /\ out[1].commits_num > out[2].commits_num
           /\ FirstSeen(out[1].author) > FirstSeen(out[2].author)

\* the insert calls the write has issued, in order: those that have returned, then
\* the one awaited now
IssuedCalls ==
    calls \o (IF spc = "insert" THEN <<[table |-> table, rows |-> batch, ok |-> TRUE]>> ELSE <<>>)

\* whether the calls before the i-th wrote all rows of a table, each successfully
WrittenBefore(tbl, i) ==
    /\ \A j \in 1..(i - 1) : IssuedCalls[j].ok
    /\ Concat(BatchesOf(tbl, SubSeq(IssuedCalls, 1, i - 1))) = Fields(Rows(tbl, snapshots))

\* C15: within one save_top_repositories call an insert is issued only when every
\* insert issued before it has returned successfully; a ranking insert is issued only
\* after all repository-fact rows were inserted, an author-commit insert only after
\* all ranking rows (and so all repository-fact rows) were inserted, and no
\* repository-fact insert follows a ranking insert, nor a ranking insert an
\* author-commit insert.
C15_TableOrdering ==
    \A i \in 1..Len(IssuedCalls) :
        /\ \A j \in 1..(i - 1) : IssuedCalls[j].ok
        /\ IssuedCalls[i].table = "rankings" =>
              /\ WrittenBefore("repositories", i)
              /\ \A j \in 1..(i - 1) : IssuedCalls[j].table # "author_commits"
        /\ IssuedCalls[i].table = "author_commits" =>
              /\ WrittenBefore("repositories", i)
              /\ WrittenBefore("rankings", i)
        /\ IssuedCalls[i].table = "repositories" =>
              \A j \in 1..(i - 1) : IssuedCalls[j].table = "repositories"

\* C15 witness: an author-commit insert is awaited after more than one
\* repository-fact chunk and more than one ranking chunk were inserted.
C15_Witness ==
    /\ spc = "insert"
    /\ table = "author_commits"
    /\ Len(BatchesOf("repositories", calls)) >= 2
    /\ Len(BatchesOf("rankings", calls)) >= 2

\* the tasks suspended in the sleep of acquire()
Sleeping == {t \in Tasks : pc[t] = "sleeping"}

\* C16 (state part): no task holds the limiter's lock while it is suspended; in
\* particular a task suspended in the rate-limiter sleep does not hold it.
C16_LockState == lock = {} /\ \A t \in Sleeping : t \notin lock

\* C16 (step part): a task is granted only by a pass through the check that starts
\* with the lock free and finds room in the window after eviction at the current
\* time, and a task that wakes up is not granted by waking: it stands before the
\* check again.
C16_LockStep ==
    \A t \in Tasks :
        /\ (pc[t] # "granted" /\ pc'[t] = "granted") =>
              /\ pc[t] = "acquire"
              /\ lock = {}
              /\ Len(Evict(timestamps, now)) < rate
              /\ timestamps' = Append(Evict(timestamps, now), now)
        /\ (pc[t] = "sleeping" /\ pc'[t] # "sleeping") =>
              /\ pc'[t] = "acquire"
              /\ now >= wake[t]
              /\ timestamps' = timestamps

\* C16: the lock of RateLimiter.acquire is held only across the evict / check /
\* record step, never across the sleep, and every wake-up leads back to the full
\* check under the lock.
C16_LockScope == [](C16_LockState) /\ [][C16_LockStep]_vars

\* C16 witness: two tasks are suspended in the sleep at the same time behind a full
\* window, the lock is free, and the clock has reached the time one of them is due.
C16_Witness ==
    /\ Cardinality(Sleeping) >= 2
    /\ lock = {}
    /\ Len(timestamps) = rate
    /\ \E t \in Sleeping : now >= wake[t]

\* the kinds of the entries of a task's log, in order
Kinds(log) == [i \in 1..Len(log) |-> log[i].what]

\* the tasks whose _make_request call has ended
Ended == {t \in Tasks : pc[t] \in {"done", "gather", "raised", "returned"}}

\* C17 (state part): a _make_request call has obtained at most one grant and issued
\* at most one request, the request after the grant; a call that has ended obtained
\* exactly one grant, issued one request, and left an outcome: the body or an error.
C17_NoRetryState ==
    \A t \in Tasks :
        /\ Kinds(issued[t]) \in {<<>>, <<"grant">>, <<"grant", "request">>}
        /\ Len(grantAt[t]) <= 1
        /\ pc[t] = "inflight" => Kinds(issued[t]) = <<"grant", "request">>
        /\ t \in Ended =>
              /\ Kinds(issued[t]) = <<"grant", "request">>
              /\ t # 0 => result[t].kind \in {"return", "raise"}
              /\ pc[0] = "raised" => returned.kind = "raise"

\* C17 (step part): the step that takes the response (any status, or a transport
\* failure) ends the call: the task does not go back to the limiter, to the sleep or
\* to the request; and a call that has ended stays ended and issues nothing more.
C17_NoRetryStep ==
    \A t \in Tasks :
        /\ (pc[t] = "inflight" /\ pc'[t] # "inflight") =>
              /\ t \in Ended'
              /\ issued'[t] = issued[t]
              /\ wake' = wake
              /\ timestamps' = timestamps
        /\ t \in Ended => (t \in Ended' /\ issued'[t] = issued[t] /\ grantAt'[t] = grantAt[t])

\* C17: no automatic retry: one grant and at most one HTTP request per
\* _make_request call, whatever the response.
C17_NoRetry == [](C17_NoRetryState) /\ [][C17_NoRetryStep]_vars

\* C17 witness: snapshot tasks have ended in errors, one on an HTTP error status and
\* one on a transport failure, each after its one grant and one request.
C17_Witness ==
    \E t, u \in 1..Len(repositories) :
        /\ pc[t] = "done" /\ pc[u] = "done"
        /\ result[t].kind = "raise" /\ result[t].error.status >= 400
        /\ result[u].kind = "raise" /\ result[u].error.text = "Network error during"
        /\ Kinds(issued[t]) = <<"grant", "request">>
        /\ Kinds(issued[u]) = <<"grant", "request">>

\* the steps a snapshot task takes of its own: permit, limiter, request, response
TaskProgress ==
    { <<"start", "acquire">>, <<"acquire", "granted">>, <<"acquire", "sleeping">>,
      <<"sleeping", "acquire">>, <<"granted", "inflight">>, <<"inflight", "done">> }

\* C18 (state part): after get_repositories has raised, the requests in flight are
\* still at most max_concurrent_requests and the grants of every trailing window
\* still at most rate.
C18_LateState ==
    pc[0] = "raised" =>
        /\ Cardinality(InFlight) <= maxConcurrent
        /\ \A w \in 0..now : Cardinality(GrantsInWindow(w)) <= rate

\* C18 (step part): no step ends a snapshot task other than its own response: when
\* a snapshot task fails, and when get_repositories raises, every other snapshot
\* task stays where it is, and afterwards moves only by its own steps.
C18_LateStep ==
    \A t \in 1..Len(repositories) :
        pc'[t] # pc[t] => <<pc[t], pc'[t]>> \in TaskProgress

\* C18: siblings are not cancelled on first failure; they keep running under the
\* concurrency cap and the rate bound.
C18_SiblingsKeepRunning == [](C18_LateState) /\ [][C18_LateStep]_vars

\* C18 witness: get_repositories has raised the error of a failed snapshot task, and
\* a sibling task that was granted after that and issued its request after that has
\* its request in flight.
C18_Witness ==
    /\ pc[0] = "raised"
    /\ FailedTasks # {}
    /\ \E t \in 1..Len(repositories) :
          /\ pc[t] = "inflight"
          /\ Kinds(issued[t]) = <<"grant", "request">>
          /\ issued[t][1].late
          /\ issued[t][2].late

\* C19: under a fair event loop and an advancing clock, every acquire() call is
\* eventually granted and returns: no caller stays before the check, in the sleep, or
\* between the two for ever.
C19_Progress == \A t \in Tasks : <>[](pc[t] = "granted")

\* C19 witness: every caller has been granted, the last of them at a time the clock
\* reached only while all remaining callers slept, a full period or more after the
\* first grants.
C19_Witness ==
    /\ \A t \in Tasks : pc[t] = "granted"
    /\ now > MaxTime
    /\ \E t \in Tasks : grantAt[t][1] = now

\* the _make_request calls that hold a permit: waiting for a grant (before the
\* check or in the sleep), granted, or with their request in flight
Holders == {t \in Tasks : pc[t] \in {"acquire", "sleeping", "granted", "inflight"}}

\* the _make_request calls that wait for a permit
Waiting == {t \in Tasks : pc[t] = "start"}

\* C20: every call that waits for a grant or has a request in flight holds one
\* permit, taken before it asked the limiter: the free permits and the holders add
\* up to max_concurrent_requests, so the holders are never more than that; and when
\* no call holds or waits for a permit any more, however the calls ended (body, HTTP
\* error, transport failure, cancellation), all max_concurrent_requests permits are
\* free again.
C20_PermitDiscipline ==
    /\ semaphore >= 0
    /\ semaphore + Cardinality(Holders) = maxConcurrent
    /\ Cardinality(Holders) <= maxConcurrent
    /\ \A t \in Tasks : issued[t] # <<>> => pc[t] \notin {"none", "start"}
    /\ (Holders = {} /\ Waiting = {}) => semaphore = maxConcurrent

\* C20 witness: all calls have ended, one with a body, one with an HTTP error or a
\* transport failure, one cancelled while its request was in flight, and every
\* permit is free.
C20_Witness ==
    /\ Holders = {} /\ Waiting = {}
    /\ semaphore = maxConcurrent
    /\ \E t, u \in 1..Len(repositories) :
          /\ result[t].kind = "raise"
          /\ result[t].error.type = "CancelledError"
          /\ Kinds(issued[t]) = <<"grant", "request">>
          /\ result[u].kind = "raise"
          /\ result[u].error.type = "RuntimeError"

=============================================================================
